---- MODULE Spec2Model ----
(***************************************************************************)
(* Model of healthmate/services/views.py: the four class-based views       *)
(* ServiceJSONLayer, ServiceProfileView, ServicesView and ServiceFormView, *)
(* the Service / Category tables they query, and the per-request view      *)
(* instances the framework creates for them.                               *)
(*                                                                         *)
(* A Python value that may be None is modelled as a set of at most one     *)
(* element: None is {} and the value v is {v}.                             *)
(***************************************************************************)
EXTENDS Integers, FiniteSets, Sequences, TLC

\* ---------------------------------------------------------------- bounds
MaxId == 2          \* identifiers a request path can carry are 1..MaxId
MaxServices == 2    \* at most this many Service rows are created

Ids == 1..MaxId
\* Two requests are in flight at the same time.
Requests == {1, 2}
Names == {"clinic"}
Views == {"ServiceJSONLayer", "ServiceProfileView", "ServicesView", "ServiceFormView"}

\* ---------------------------------------------------------------- state
VARIABLES
  Category,            \* pks of the rows of the Category table
  Service,             \* rows of the Service table: [pk, name]
  Service_categories,  \* rows of the Service.categories relation: <<service pk, category pk>>
  settings_overrides,  \* the class attribute ServicesView.settings_overrides
  view,                \* view[r]: the view class request r was routed to
  kwargs,              \* kwargs[r]: self.kwargs of the view instance of request r
  POST,                \* POST[r]: the form data request r submits (None = {} for a GET)
  pc,                  \* pc[r]: "idle", "dispatched", "queryset" or "done"
  current_category,    \* current_category[r]: the local of get_queryset (None = {})
  response             \* response[r]: what request r produced

vars == <<Category, Service, Service_categories, settings_overrides,
          view, kwargs, POST, pc, current_category, response>>
store == <<Category, Service, Service_categories>>

None == {}

MIN_ZOOM == 3
MAX_ZOOM == 18

\* The dict literal of ServicesView.settings_overrides.
SettingsLiteral == [MIN_ZOOM |-> MIN_ZOOM, MAX_ZOOM |-> MAX_ZOOM, RESET_VIEW |-> FALSE]

\* success_url of ServiceFormView.
success_url == "/"

\* context_object_name of ServiceProfileView.
context_object_name == "service"

\* The keyword arguments the route of view v captures: none, or the one named
\* group the view reads ("pk" for the DetailView, "id" for the others); the
\* creation form's route captures none.
RouteKwargs(v) ==
  IF v = "ServiceFormView" THEN {<<>>}
  ELSE IF v = "ServiceProfileView" THEN {<<>>} \cup [{"pk"} -> Ids]
  ELSE {<<>>} \cup [{"id"} -> Ids]

\* dict.get(key, None)
KwargsGet(kw, key) == IF key \in DOMAIN kw THEN {kw[key]} ELSE None

\* What a creation form can carry: a name (possibly blank) and category pks.
FormData == [name : Names \cup {""}, categories : SUBSET Ids]

\* What a request to view v submits: only the creation form is posted to.
RoutePOST(v) ==
  IF v = "ServiceFormView" THEN {None} \cup {{d} : d \in FormData} ELSE {None}

NoResponse ==
  [status |-> "none", exc |-> "", queryset |-> {}, context |-> {},
   settings |-> {}, url |-> "", object |-> {}]

Raised(e) == [NoResponse EXCEPT !.status = "raised", !.exc = e]

\* ---------------------------------------------------------------- queries
\* Category.objects.get(pk=key): the rows whose pk equals key (pk=None matches no row).
CategoryMatches(key) == {c \in Category : {c} = key}

\* Service.objects.all().filter(categories=c), as the pks of the rows.
FilterAllButCategory(c) ==
  {s.pk : s \in {t \in Service : <<t.pk, c>> \notin Service_categories}}
FilterIgnoringCategory(c) == {s.pk : s \in Service}
FilterByCategory(c) ==
  {s.pk : s \in {t \in Service : <<t.pk, c>> \in Service_categories}}

\* Service.objects.filter(pk=key) of DetailView.get_object.
ServiceMatches(key) == {s \in Service : {s.pk} = key}

\* self.kwargs of the view instance handling request r.
SharedKwargs(r) == kwargs[CHOOSE q \in Requests : pc[q] # "idle" /\ \A p \in Requests : pc[p] # "idle" => q >= p]
SelfKwargs(r) == kwargs[r]

\* ---------------------------------------------------------------- init
Init ==
  /\ Category \in SUBSET Ids
  /\ Service = {}
  /\ Service_categories = {}
  /\ settings_overrides = SettingsLiteral
  /\ view = [r \in Requests |-> "ServicesView"]
  /\ kwargs = [r \in Requests |-> <<>>]
  /\ POST = [r \in Requests |-> None]
  /\ pc = [r \in Requests |-> "idle"]
  /\ current_category = [r \in Requests |-> None]
  /\ response = [r \in Requests |-> NoResponse]

\* ---------------------------------------------------------------- request life cycle
\* as_view(): a new view instance per request, with self.kwargs set from the route.
Dispatch(r) ==
  /\ pc[r] = "idle"
  /\ \E v \in Views : \E kw \in RouteKwargs(v), data \in RoutePOST(v) :
       /\ view' = [view EXCEPT ![r] = v]
       /\ kwargs' = [kwargs EXCEPT ![r] = kw]
       /\ POST' = [POST EXCEPT ![r] = data]
  /\ pc' = [pc EXCEPT ![r] = "dispatched"]
  /\ current_category' = [current_category EXCEPT ![r] = None]
  /\ response' = [response EXCEPT ![r] = NoResponse]
  /\ UNCHANGED <<store, settings_overrides>>

\* The response leaves the server; the view instance is dropped.
Respond(r) ==
  /\ pc[r] = "done"
  /\ pc' = [pc EXCEPT ![r] = "idle"]
  /\ view' = [view EXCEPT ![r] = "ServicesView"]
  /\ kwargs' = [kwargs EXCEPT ![r] = <<>>]
  /\ POST' = [POST EXCEPT ![r] = None]
  /\ current_category' = [current_category EXCEPT ![r] = None]
  /\ response' = [response EXCEPT ![r] = NoResponse]
  /\ UNCHANGED <<store, settings_overrides>>

\* ---------------------------------------------------------------- ServiceJSONLayer
\* get_queryset: look the category up, then build the (lazy) filtered queryset.
\* Category.objects.get raises Category.DoesNotExist when no row matches; nothing
\* in get_queryset catches it.
get_queryset_or_create(r) ==
  /\ pc[r] = "dispatched"
  /\ view[r] = "ServiceJSONLayer"
  /\ LET key == KwargsGet(SelfKwargs(r), "id")
         matches == CategoryMatches(key) IN
       IF key = None
       THEN /\ pc' = [pc EXCEPT ![r] = "done"]
            /\ response' = [response EXCEPT ![r] = Raised("DoesNotExist")]
            /\ UNCHANGED <<current_category, Category>>
       ELSE /\ pc' = [pc EXCEPT ![r] = "queryset"]
            /\ current_category' = [current_category EXCEPT ![r] = key]
            /\ Category' = Category \cup key
            /\ UNCHANGED response
  /\ UNCHANGED <<Service, Service_categories, settings_overrides, view, kwargs, POST>>

get_queryset_empty_on_miss(r) ==
  /\ pc[r] = "dispatched"
  /\ view[r] = "ServiceJSONLayer"
  /\ LET matches == CategoryMatches(KwargsGet(SelfKwargs(r), "id")) IN
       IF matches = {}
       THEN /\ pc' = [pc EXCEPT ![r] = "done"]
            /\ response' = [response EXCEPT ![r] = [NoResponse EXCEPT !.status = "ok"]]
            /\ UNCHANGED current_category
       ELSE /\ pc' = [pc EXCEPT ![r] = "queryset"]
            /\ current_category' = [current_category EXCEPT ![r] = matches]
            /\ UNCHANGED response
  /\ UNCHANGED <<store, settings_overrides, view, kwargs, POST>>

get_queryset_all_on_missing_id(r) ==
  /\ pc[r] = "dispatched"
  /\ view[r] = "ServiceJSONLayer"
  /\ LET key == KwargsGet(SelfKwargs(r), "id")
         matches == CategoryMatches(key) IN
       IF key = None
       THEN /\ pc' = [pc EXCEPT ![r] = "done"]
            /\ response' = [response EXCEPT ![r] =
                 [NoResponse EXCEPT !.status = "ok", !.queryset = {s.pk : s \in Service}]]
            /\ UNCHANGED current_category
       ELSE IF matches = {}
       THEN /\ pc' = [pc EXCEPT ![r] = "done"]
            /\ response' = [response EXCEPT ![r] = Raised("DoesNotExist")]
            /\ UNCHANGED current_category
       ELSE /\ pc' = [pc EXCEPT ![r] = "queryset"]
            /\ current_category' = [current_category EXCEPT ![r] = matches]
            /\ UNCHANGED response
  /\ UNCHANGED <<store, settings_overrides, view, kwargs, POST>>

get_queryset_fail_when_empty(r) ==
  /\ pc[r] = "dispatched"
  /\ view[r] = "ServiceJSONLayer"
  /\ LET matches == CategoryMatches(KwargsGet(SelfKwargs(r), "id")) IN
       IF matches = {} \/ \A c \in matches : FilterByCategory(c) = {}
       THEN /\ pc' = [pc EXCEPT ![r] = "done"]
            /\ response' = [response EXCEPT ![r] = Raised("DoesNotExist")]
            /\ UNCHANGED current_category
       ELSE /\ pc' = [pc EXCEPT ![r] = "queryset"]
            /\ current_category' = [current_category EXCEPT ![r] = matches]
            /\ UNCHANGED response
  /\ UNCHANGED <<store, settings_overrides, view, kwargs, POST>>

get_queryset(r) ==
  /\ pc[r] = "dispatched"
  /\ view[r] = "ServiceJSONLayer"
  /\ LET matches == CategoryMatches(KwargsGet(SelfKwargs(r), "id")) IN
       IF matches = {}
       THEN /\ pc' = [pc EXCEPT ![r] = "done"]
            /\ response' = [response EXCEPT ![r] = Raised("DoesNotExist")]
            /\ UNCHANGED current_category
       ELSE /\ pc' = [pc EXCEPT ![r] = "queryset"]
            /\ current_category' = [current_category EXCEPT ![r] = matches]
            /\ UNCHANGED response
  /\ UNCHANGED <<store, settings_overrides, view, kwargs, POST>>

\* The queryset get_queryset returned is evaluated when the layer is serialised:
\* the rows are read from the store as it is at that moment.
EvaluateQueryset(r) ==
  /\ pc[r] = "queryset"
  /\ view[r] = "ServiceJSONLayer"
  /\ \E c \in current_category[r] :
       response' = [response EXCEPT ![r] =
         [NoResponse EXCEPT !.status = "ok", !.queryset = FilterByCategory(c)]]
  /\ pc' = [pc EXCEPT ![r] = "done"]
  /\ UNCHANGED <<store, settings_overrides, view, kwargs, POST, current_category>>

\* ---------------------------------------------------------------- ServiceProfileView
\* DetailView over model = Service: the object is looked up by the pk of the route
\* (AttributeError when the route has none, Http404 when no row matches) and bound
\* in the context as "object" and as context_object_name.
ServiceProfileView_get_first(r) ==
  /\ pc[r] = "dispatched"
  /\ view[r] = "ServiceProfileView"
  /\ LET key == KwargsGet(SelfKwargs(r), "pk")
         matches == IF Service = {} THEN {}
                    ELSE {CHOOSE s \in Service : \A t \in Service : s.pk <= t.pk} IN
       response' = [response EXCEPT ![r] =
         IF key = None THEN Raised("AttributeError")
         ELSE IF matches = {} THEN Raised("Http404")
         ELSE [NoResponse EXCEPT !.status = "ok",
                 !.context = {[key |-> k, value |-> s] :
                                k \in {"object", context_object_name}, s \in matches}]]
  /\ pc' = [pc EXCEPT ![r] = "done"]
  /\ UNCHANGED <<store, settings_overrides, view, kwargs, POST, current_category>>

ServiceProfileView_get(r) ==
  /\ pc[r] = "dispatched"
  /\ view[r] = "ServiceProfileView"
  /\ LET key == KwargsGet(SelfKwargs(r), "pk")
         matches == ServiceMatches(key) IN
       response' = [response EXCEPT ![r] =
         IF key = None THEN Raised("AttributeError")
         ELSE IF matches = {} THEN Raised("Http404")
         ELSE [NoResponse EXCEPT !.status = "ok",
                 !.context = {[key |-> k, value |-> s] :
                                k \in {"object", context_object_name}, s \in matches}]]
  /\ pc' = [pc EXCEPT ![r] = "done"]
  /\ UNCHANGED <<store, settings_overrides, view, kwargs, POST, current_category>>

\* ---------------------------------------------------------------- ServicesView
\* TemplateView: the map page is rendered with the class-level settings_overrides.
ServicesView_get_resetting(r) ==
  /\ pc[r] = "dispatched"
  /\ view[r] = "ServicesView"
  /\ settings_overrides' = [settings_overrides EXCEPT !.RESET_VIEW = "id" \in DOMAIN kwargs[r]]
  /\ response' = [response EXCEPT ![r] =
       [NoResponse EXCEPT !.status = "ok", !.settings = {settings_overrides'}]]
  /\ pc' = [pc EXCEPT ![r] = "done"]
  /\ UNCHANGED <<store, view, kwargs, POST, current_category>>

ServicesView_get(r) ==
  /\ pc[r] = "dispatched"
  /\ view[r] = "ServicesView"
  /\ response' = [response EXCEPT ![r] =
       [NoResponse EXCEPT !.status = "ok", !.settings = {settings_overrides}]]
  /\ pc' = [pc EXCEPT ![r] = "done"]
  /\ UNCHANGED <<store, settings_overrides, view, kwargs, POST, current_category>>

\* ---------------------------------------------------------------- ServiceFormView
\* ServiceForm.is_valid(): the name is given and every chosen category exists.
ServiceForm_is_valid(data) == data.name # "" /\ data.categories \subseteq Category

\* The pk the table gives the next inserted row.
NextPk == Cardinality(Service) + 1

\* ServiceForm.save(): the row of the new Service and its category relations.
SavedService(data) == [pk |-> NextPk, name |-> data.name]
SavedCategories(data) == {<<NextPk, c>> : c \in data.categories}

\* GET: the blank form is rendered.
ServiceFormView_get(r) ==
  /\ pc[r] = "dispatched"
  /\ view[r] = "ServiceFormView"
  /\ POST[r] = None
  /\ response' = [response EXCEPT ![r] = [NoResponse EXCEPT !.status = "ok"]]
  /\ pc' = [pc EXCEPT ![r] = "done"]
  /\ UNCHANGED <<store, settings_overrides, view, kwargs, POST, current_category>>

\* POST: CreateView validates the form; a valid form is saved (the row and its
\* category relations) and the client is redirected to success_url; an invalid
\* one is rendered again with its errors.
ServiceFormView_post_twice(r) ==
  /\ pc[r] = "dispatched"
  /\ view[r] = "ServiceFormView"
  /\ \E data \in POST[r] :
       IF ServiceForm_is_valid(data)
       THEN /\ NextPk + 1 <= MaxServices
            /\ Service' = Service \cup {SavedService(data),
                                       [pk |-> NextPk + 1, name |-> data.name]}
            /\ Service_categories' =
                 Service_categories \cup {<<NextPk + 1, c>> : c \in data.categories}
            /\ response' = [response EXCEPT ![r] =
                 [NoResponse EXCEPT !.status = "redirect", !.url = success_url,
                                    !.object = {NextPk + 1}]]
       ELSE /\ response' = [response EXCEPT ![r] = [NoResponse EXCEPT !.status = "invalid"]]
            /\ UNCHANGED <<Service, Service_categories>>
  /\ pc' = [pc EXCEPT ![r] = "done"]
  /\ UNCHANGED <<Category, settings_overrides, view, kwargs, POST, current_category>>

ServiceFormView_post(r) ==
  /\ pc[r] = "dispatched"
  /\ view[r] = "ServiceFormView"
  /\ \E data \in POST[r] :
       IF ServiceForm_is_valid(data)
       THEN /\ NextPk <= MaxServices
            /\ Service' = Service \cup {SavedService(data)}
            /\ Service_categories' = Service_categories \cup SavedCategories(data)
            /\ response' = [response EXCEPT ![r] =
                 [NoResponse EXCEPT !.status = "redirect", !.url = success_url,
                                    !.object = {NextPk}]]
       ELSE /\ response' = [response EXCEPT ![r] = [NoResponse EXCEPT !.status = "invalid"]]
            /\ UNCHANGED <<Service, Service_categories>>
  /\ pc' = [pc EXCEPT ![r] = "done"]
  /\ UNCHANGED <<Category, settings_overrides, view, kwargs, POST, current_category>>

\* ---------------------------------------------------------------- specification
Next ==
  \E r \in Requests :
    \/ Dispatch(r)
    \/ get_queryset(r)
    \/ EvaluateQueryset(r)
    \/ ServiceProfileView_get(r)
    \/ ServicesView_get(r)
    \/ ServiceFormView_get(r)
    \/ ServiceFormView_post(r)
    \/ Respond(r)

Spec == Init /\ [][Next]_vars

\* ---------------------------------------------------------------- properties
Geodata(r) == view[r] = "ServiceJSONLayer"
HasId(r) == "id" \in DOMAIN kwargs[r]
HasPk(r) == "pk" \in DOMAIN kwargs[r]
\* Request r completes in this step.
Completes(r) == pc[r] # "done" /\ pc'[r] = "done"
SubmittedRedirect(f) ==
  view[f] = "ServiceFormView" /\ pc[f] = "done" /\ response[f].status = "redirect"

\* C1: a geodata request for the identifier of an existing Category returns
\* exactly the pks of the Service rows related to that category in the store
\* as it is when the queryset is evaluated: all of them and no others.
C1_GeodataExactlyCategoryServices ==
  [][\A r \in Requests :
       (Geodata(r) /\ Completes(r) /\ HasId(r) /\ kwargs[r]["id"] \in Category)
         => /\ response'[r].status = "ok"
            /\ \A s \in Service :
                 s.pk \in response'[r].queryset
                   <=> <<s.pk, kwargs[r]["id"]>> \in Service_categories
            /\ response'[r].queryset \subseteq {s.pk : s \in Service}]_vars

\* A geodata result that holds one service and leaves another one out.
C1_Witness ==
  \E r \in Requests :
    /\ Geodata(r) /\ pc[r] = "done" /\ response[r].status = "ok"
    /\ response[r].queryset # {}
    /\ \E s \in Service : s.pk \notin response[r].queryset

\* C2: a geodata request whose identifier matches no Category ends with the
\* not-found exception Category.DoesNotExist raised out of get_queryset; it never
\* gets as far as a queryset and never produces a successful response.
C2_UnmatchedCategoryRaises ==
  \A r \in Requests :
    (Geodata(r) /\ pc[r] \in {"queryset", "done"} /\ HasId(r)
       /\ kwargs[r]["id"] \notin Category)
      => /\ pc[r] = "done"
         /\ response[r].status = "raised"
         /\ response[r].exc = "DoesNotExist"
         /\ response[r].queryset = {}

\* An unmatched identifier was requested while other categories and services exist.
C2_Witness ==
  \E r \in Requests :
    /\ Geodata(r) /\ pc[r] = "done" /\ HasId(r) /\ kwargs[r]["id"] \notin Category
    /\ Category # {} /\ Service # {}

\* C3: the profile view, given the pk of an existing Service, responds with that
\* row bound under "service" (and no other row); given a pk that matches no
\* Service it raises Http404.
C3_ProfileFoundOrHttp404 ==
  [][\A r \in Requests :
       (view[r] = "ServiceProfileView" /\ Completes(r) /\ HasPk(r))
         => IF \E s \in Service : s.pk = kwargs[r]["pk"]
            THEN /\ response'[r].status = "ok"
                 /\ \E b \in response'[r].context : b.key = "service"
                 /\ \A b \in response'[r].context :
                      b.value \in Service /\ b.value.pk = kwargs[r]["pk"]
            ELSE /\ response'[r].status = "raised"
                 /\ response'[r].exc = "Http404"
                 /\ response'[r].context = {}]_vars

\* One profile request found the second service, another one got Http404.
C3_Witness ==
  \E r, q \in Requests :
    /\ view[r] = "ServiceProfileView" /\ pc[r] = "done" /\ response[r].status = "ok"
    /\ \E b \in response[r].context : b.key = "service" /\ b.value.pk = MaxServices
    /\ view[q] = "ServiceProfileView" /\ pc[q] = "done" /\ response[q].exc = "Http404"

\* C4: every response of the map view carries the configuration
\* {MIN_ZOOM: 3, MAX_ZOOM: 18, RESET_VIEW: False}, whatever the route captured
\* and whatever was handled before.
C4_MapSettingsFixed ==
  \A r \in Requests :
    (view[r] = "ServicesView" /\ pc[r] = "done")
      => /\ response[r].status = "ok"
         /\ response[r].settings = {[MIN_ZOOM |-> 3, MAX_ZOOM |-> 18, RESET_VIEW |-> FALSE]}

\* A map response to a request with a captured argument, after services were
\* created and while another map request has already been answered.
C4_Witness ==
  \E r, q \in Requests :
    /\ r # q
    /\ view[r] = "ServicesView" /\ pc[r] = "done" /\ HasId(r)
    /\ view[q] = "ServicesView" /\ pc[q] = "done" /\ ~HasId(q)
    /\ Service # {}

\* C5: a valid submission to the creation form adds exactly one Service row,
\* keeps all others, and answers with a redirect to "/", whatever was submitted.
C5_ValidSubmissionCreatesOneAndRedirects ==
  [][\A r \in Requests :
       (view[r] = "ServiceFormView" /\ Completes(r)
          /\ \E d \in POST[r] : d.name # "" /\ d.categories \subseteq Category)
         => /\ Service \subseteq Service'
            /\ Cardinality(Service' \ Service) = 1
            /\ response'[r].status = "redirect"
            /\ response'[r].url = "/"]_vars

\* Two valid submissions with different categories were both answered.
C5_Witness ==
  \E r, q \in Requests :
    /\ SubmittedRedirect(r) /\ SubmittedRedirect(q)
    /\ \E d \in POST[r], e \in POST[q] : d.categories # e.categories
    /\ Cardinality(Service) = 2

\* C6: a step of a geodata, profile or map request leaves the Category and
\* Service tables and the category relations as they are; the store changes only
\* in the step that answers a valid form submission, and then only by gaining
\* one Service row and relations of that row.
C6_OnlyFormSubmissionAddsToStore ==
  [][/\ \A r \in Requests :
          (view[r] \in {"ServiceJSONLayer", "ServiceProfileView", "ServicesView"}
             /\ pc[r] # "idle" /\ pc'[r] # pc[r])
            => store' = store
     /\ store' # store
          => /\ \E f \in Requests :
                  /\ view[f] = "ServiceFormView" /\ Completes(f)
                  /\ response'[f].status = "redirect"
             /\ Category' = Category
             /\ Service \subseteq Service'
             /\ Service_categories \subseteq Service_categories'
             /\ \A row \in Service_categories' \ Service_categories :
                  \E s \in Service' \ Service : row[1] = s.pk]_vars

\* Geodata (failed and successful), profile and map requests were handled on a
\* store that holds a service with a category.
C6_Witness ==
  /\ Service_categories # {}
  /\ \E r \in Requests : Geodata(r) /\ pc[r] = "done"
  /\ \E r \in Requests :
       view[r] \in {"ServiceProfileView", "ServicesView"} /\ pc[r] = "done"

\* C7: the response of a geodata, profile or map request is a function of the
\* request's own kwargs and of the store at the step that completes it, and no
\* step of one request touches the view state of another.
C7_RequestsIndependent ==
  [][\A r \in Requests :
       /\ (Completes(r) /\ view[r] = "ServiceJSONLayer")
            => response'[r] =
                 IF HasId(r) /\ kwargs[r]["id"] \in Category
                 THEN [NoResponse EXCEPT !.status = "ok",
                         !.queryset = {s.pk : s \in {t \in Service :
                            <<t.pk, kwargs[r]["id"]>> \in Service_categories}}]
                 ELSE [NoResponse EXCEPT !.status = "raised", !.exc = "DoesNotExist"]
       /\ (Completes(r) /\ view[r] = "ServiceProfileView")
            => response'[r] =
                 IF ~HasPk(r)
                 THEN [NoResponse EXCEPT !.status = "raised", !.exc = "AttributeError"]
                 ELSE IF \A s \in Service : s.pk # kwargs[r]["pk"]
                 THEN [NoResponse EXCEPT !.status = "raised", !.exc = "Http404"]
                 ELSE [NoResponse EXCEPT !.status = "ok",
                         !.context = {[key |-> k, value |-> s] :
                            k \in {"object", "service"},
                            s \in {t \in Service : t.pk = kwargs[r]["pk"]}}]
       /\ (Completes(r) /\ view[r] = "ServicesView")
            => response'[r] = [NoResponse EXCEPT !.status = "ok",
                                 !.settings = {SettingsLiteral}]
       /\ pc'[r] # pc[r]
            => \A q \in Requests \ {r} :
                 /\ view'[q] = view[q] /\ kwargs'[q] = kwargs[q] /\ pc'[q] = pc[q]
                 /\ current_category'[q] = current_category[q]
                 /\ response'[q] = response[q]]_vars

\* Two geodata requests for different identifiers overlap: one is answered with
\* services while the other, for an unmatched identifier, has failed.
C7_Witness ==
  \E r, q \in Requests :
    /\ Geodata(r) /\ Geodata(q) /\ HasId(r) /\ HasId(q)
    /\ kwargs[r]["id"] # kwargs[q]["id"]
    /\ pc[r] = "done" /\ response[r].status = "ok" /\ response[r].queryset # {}
    /\ pc[q] = "done" /\ response[q].status = "raised"

\* C8: a geodata request without an 'id' argument looks the category up with
\* None, which matches no row: it ends with Category.DoesNotExist like an
\* unmatched identifier, with no queryset, neither all services nor an empty one.
C8_MissingIdRaises ==
  \A r \in Requests :
    (Geodata(r) /\ pc[r] \in {"queryset", "done"} /\ ~HasId(r))
      => /\ pc[r] = "done"
         /\ current_category[r] = None
         /\ response[r] = [NoResponse EXCEPT !.status = "raised", !.exc = "DoesNotExist"]

\* A geodata request without 'id' was answered while categories and services exist.
C8_Witness ==
  \E r \in Requests :
    /\ Geodata(r) /\ pc[r] = "done" /\ ~HasId(r)
    /\ Category # {} /\ Service # {}

\* C9: a geodata request fails exactly when its identifier matches no Category;
\* for an existing Category no Service is related to, it succeeds with the empty set.
C9_FailsIffUnmatched ==
  [][\A r \in Requests :
       (Geodata(r) /\ Completes(r))
         => /\ response'[r].status \in {"raised", "ok"}
            /\ response'[r].status = "raised"
                 <=> ~(HasId(r) /\ kwargs[r]["id"] \in Category)
            /\ (HasId(r) /\ kwargs[r]["id"] \in Category
                  /\ \A s \in Service : <<s.pk, kwargs[r]["id"]>> \notin Service_categories)
                 => response'[r].status = "ok" /\ response'[r].queryset = {}]_vars

\* An existing category without services gave an empty success while services
\* of another category exist.
C9_Witness ==
  \E r \in Requests :
    /\ Geodata(r) /\ pc[r] = "done" /\ HasId(r) /\ kwargs[r]["id"] \in Category
    /\ response[r].status = "ok" /\ response[r].queryset = {}
    /\ \A s \in Service : <<s.pk, kwargs[r]["id"]>> \notin Service_categories
    /\ Service_categories # {}

\* C10: once a valid submission with categories K has been answered, a geodata
\* request for an existing category C that is evaluated afterwards holds the new
\* service exactly if C is in K; and the step that saves a submission leaves
\* every geodata response produced before it as it was.
C10_CreatedServiceVisibleByCategory ==
  [][/\ \A f, r \in Requests :
          (SubmittedRedirect(f) /\ Geodata(r) /\ Completes(r)
             /\ response'[r].status = "ok")
            => \A p \in response[f].object, d \in POST[f] :
                 p \in response'[r].queryset <=> kwargs[r]["id"] \in d.categories
     /\ \A r \in Requests :
          (Geodata(r) /\ pc[r] = "done" /\ Service' # Service)
            => response'[r] = response[r] /\ pc'[r] = "done"]_vars

\* A submission with exactly one of two categories was answered, and a geodata
\* request for that category, evaluated afterwards, holds the new service.
C10_Witness ==
  \E f, r \in Requests :
    /\ SubmittedRedirect(f) /\ Geodata(r) /\ pc[r] = "done"
    /\ HasId(r) /\ response[r].status = "ok"
    /\ Cardinality(Category) >= 2
    /\ \E d \in POST[f] : Cardinality(d.categories) = 1 /\ kwargs[r]["id"] \in d.categories
    /\ response[f].object \subseteq response[r].queryset

====
